---- MODULE Spec2Model ----
(***************************************************************************)
(* Model of unfollow.js: the Farcaster follower audit and unfollow script. *)
(*                                                                         *)
(* main validates the environment, runs fetchFidsToUnfollow (submit the    *)
(* Dune query, poll its status, fetch the result rows), shows the list to  *)
(* the operator, and on confirmation runs unfollowFids (slice the list     *)
(* into batches, one DELETE per batch behind a p-limit gate of 5, join).   *)
(*                                                                         *)
(* One action is one run-to-completion step of the JavaScript event loop:  *)
(* the code between two awaits.  A request is issued in the step that      *)
(* reaches the await, and its response is the step that resumes from it.   *)
(***************************************************************************)
EXTENDS Integers, Sequences, FiniteSets, TLC

VARIABLES
    pc,             \* where main (and the fetchFidsToUnfollow it awaits) stands
    env,            \* process.env restricted to the four required variables
    executionId,    \* the execution_id of the submission response, <<>> if none
    status,         \* the state of the latest status response, <<>> before any
    fids,           \* the list fetchFidsToUnfollow returned to main
    shown,          \* <<>> or <<list>>: the list printed before the prompt
    answer,         \* <<>> or <<input>>: what readlineSync.question returned
    act,            \* unfollowFids: "idle", "skipped", "running", "completed"
    batches,        \* the slices unfollowFids built
    bstate,         \* per batch: "queued", "inflight", "success", "issues", "failed"
    deleteRequests, \* the DELETE requests issued, in the order of issue
    responses,      \* per batch: how its DELETE request ended, "none" until then
    ticks,          \* p-limit's enqueue microtasks that have not run yet
    reqCount,       \* number of requests issued, per kind
    caught,         \* <<>> or <<error>>: what fetchFidsToUnfollow's catch logged
    escaped         \* TRUE once an exception reached main().catch

vars == <<pc, env, executionId, status, fids, shown, answer, act, batches,
          bstate, deleteRequests, responses, ticks, reqCount, caught, escaped>>

queryVars == <<executionId, status, fids, caught>>
gateVars  == <<shown, answer>>
actVars   == <<act, batches, bstate, deleteRequests, responses, ticks>>

----------------------------------------------------------------------------
(* Program constants *)

batchSize == 100        \* max FIDs per Neynar request
limit     == 5          \* pLimit(5)

(* Bounds of the model *)

MaxBatches   == 6       \* the fetched list spans at most this many batches
MaxPolls     == 2       \* status polls after which the job no longer stays pending
MaxAnswerLen == 3       \* longest confirmation input

----------------------------------------------------------------------------
(* Inputs *)

EnvVars == {"DUNE_API_KEY", "NEYNAR_API_KEY", "FARCASTER_SIGNER_UUID", "TARGET_FID"}

Undefined == "<undefined>"

\* a variable of process.env is undefined, the empty string, or a value
EnvValues == {Undefined, "", "set"}

\* the lengths of the result sets the analytics service answers with: none,
\* one, one full batch, and for every number of batches up to MaxBatches a
\* list that ends in a full batch (even numbers) or in half a batch (odd)
LastBatch(k) == IF k % 2 = 0 THEN batchSize ELSE batchSize \div 2

RowCounts ==
    {0, 1, batchSize} \cup {(k - 1) * batchSize + LastBatch(k) : k \in 1..MaxBatches}

\* result rows as Dune returns them: objects of which profile_id is one field
Rows(n) == [i \in 1..n |-> [profile_id |-> 1000 + i, rank |-> i]]

\* confirmation inputs, as sequences of characters
Alphabet == {"y", "Y", "e", "E", "s", "S", "n"}

Answers == UNION {[1..n -> Alphabet] : n \in 0..MaxAnswerLen}

ExecuteOutcomes == {"http_error", "no_execution_id", "ok"}

ResultsFailures == {"http_error", "no_rows"}

StatusOutcomes == {"http_error", "QUERY_STATE_PENDING", "QUERY_STATE_EXECUTING",
                   "QUERY_STATE_COMPLETED", "QUERY_STATE_FAILED"}

DeleteOutcomes == {"success", "no_success", "error"}

----------------------------------------------------------------------------
(* Helpers *)

\* !x of JavaScript, for the values a process.env entry takes
Falsy(v) == v = Undefined \/ v = ""

\* variant: TARGET_FID is left out of the check
EnvMissing_withoutTarget(e) == \E v \in EnvVars \ {"TARGET_FID"} : Falsy(e[v])

\* !DUNE_API_KEY || !NEYNAR_API_KEY || !FARCASTER_SIGNER_UUID || !TARGET_FID
EnvMissing(e) == \E v \in EnvVars : Falsy(e[v])

Lower(c) ==
    CASE c = "Y" -> "y"
      [] c = "E" -> "e"
      [] c = "S" -> "s"
      [] OTHER   -> c

toLowerCase(s) == [i \in 1..Len(s) |-> Lower(s[i])]

\* variant: answer.toLowerCase().startsWith('y')
Accepts_startsWithY(a) == Len(a) > 0 /\ toLowerCase(a)[1] = "y"

\* answer.toLowerCase() === 'yes'
Accepts(a) == toLowerCase(a) = <<"y", "e", "s">>

Min(a, b) == IF a < b THEN a ELSE b

\* rows.map(row => row.profile_id)
Project(rows) == [i \in 1..Len(rows) |-> rows[i].profile_id]

\* variant: fids.slice(i, i + batchSize - 1)
Slice_short(list, i) == SubSeq(list, i + 1, Min(i + batchSize - 1, Len(list)))

\* fids.slice(i, i + batchSize), i a 0-based offset
Slice(list, i) == SubSeq(list, i + 1, Min(i + batchSize, Len(list)))

\* for (let i = 0; i < fids.length; i += batchSize) batches.push(...)
RECURSIVE BatchesFrom(_, _)
BatchesFrom(list, i) ==
    IF i < Len(list)
    THEN <<Slice(list, i)>> \o BatchesFrom(list, i + batchSize)
    ELSE <<>>

Batches(list) == BatchesFrom(list, 0)

Add(counts, kind) == [counts EXCEPT ![kind] = @ + 1]

----------------------------------------------------------------------------
(* The concurrency gate: limit = pLimit(5) *)

Queue(bs) == {i \in DOMAIN bs : bs[i] = "queued"}

InFlight(bs) == Cardinality({i \in DOMAIN bs : bs[i] = "inflight"})

Resolved(bs) == {i \in DOMAIN bs : bs[i] \in {"success", "issues", "failed"}}

\* the queue is first in, first out: batches were enqueued in index order
QueueHead(bs) == CHOOSE i \in Queue(bs) : \A j \in Queue(bs) : i <= j

\* variant: activeCount < concurrency - 1
HasSlot_tooStrict(bs) == InFlight(bs) < limit - 1

\* variant: activeCount <= concurrency
HasSlot_offByOne(bs) == InFlight(bs) <= limit

\* activeCount < concurrency
HasSlot(bs) == InFlight(bs) < limit

\* variant: target_fids: fids
DeleteRequest_wholeList(i) ==
    [index       |-> i,
     signer_uuid |-> env["FARCASTER_SIGNER_UUID"],
     target_fids |-> fids]

\* the body of the DELETE request of batch i
DeleteRequest(i) ==
    [index       |-> i,
     signer_uuid |-> env["FARCASTER_SIGNER_UUID"],
     target_fids |-> batches[i]]

\* the limited function starts for the head of the queue: it logs and
\* calls axios.delete, which issues the request
StartHead(bs) ==
    /\ bstate' = [bs EXCEPT ![QueueHead(bs)] = "inflight"]
    /\ deleteRequests' = Append(deleteRequests, DeleteRequest(QueueHead(bs)))
    /\ reqCount' = Add(reqCount, "delete")

\* variant: a failed batch is put back in the queue
Report_retry(o) ==
    CASE o = "success"    -> "success"
      [] o = "no_success" -> "issues"
      [] o = "error"      -> "queued"

\* variant: response.data.success is not looked at
Report_flagIgnored(o) ==
    CASE o = "success"    -> "success"
      [] o = "no_success" -> "success"
      [] o = "error"      -> "failed"

\* what the limited function logs for the way its request ended
Report(o) ==
    CASE o = "success"    -> "success"
      [] o = "no_success" -> "issues"
      [] o = "error"      -> "failed"

\* variant: the next one is started only while no limited function has failed
NextQueued_stopOnFailure(bs) ==
    IF Queue(bs) # {} /\ \A i \in DOMAIN bs : bs[i] # "failed"
    THEN StartHead(bs)
    ELSE bstate' = bs /\ UNCHANGED <<deleteRequests, reqCount>>

\* p-limit's next(), run when a limited function has settled: activeCount--,
\* then the head of the queue, if any, is started
NextQueued(bs) ==
    IF Queue(bs) # {}
    THEN StartHead(bs)
    ELSE bstate' = bs /\ UNCHANGED <<deleteRequests, reqCount>>

----------------------------------------------------------------------------
(* fetchFidsToUnfollow *)

\* the error an outcome raises inside the try block
ErrorOf(at, r) ==
    [at   |-> at,
     kind |-> CASE r = "http_error"         -> "http"
                [] r = "no_execution_id"    -> "no_execution_id"
                [] r = "QUERY_STATE_FAILED" -> "query_failed"
                [] OTHER                    -> "type_error"]

\* variant: the catch block logs and rethrows
QueryCatch_rethrow(error) ==
    /\ caught' = <<error>>
    /\ escaped' = TRUE
    /\ pc' = "done"
    /\ UNCHANGED fids

\* the catch block: log the error, return []
QueryCatch(error) ==
    /\ caught' = <<error>>
    /\ fids' = <<>>
    /\ pc' = "main_resume"
    /\ UNCHANGED escaped

\* executeResponse.data.execution_id
ExecutionIdOf(r) == IF r = "ok" THEN <<"execution">> ELSE <<>>

\* variant: the execution id is not looked at
NoExecutionId_never(r) == FALSE

\* if (!executionId)
NoExecutionId(r) == ExecutionIdOf(r) = <<>>

\* variant: the failed state is not looked at
QueryFailed_never(state) == FALSE

\* if (status.state === 'QUERY_STATE_FAILED')
QueryFailed(state) == state = "QUERY_STATE_FAILED"

\* variant: the loop gives up after two polls
KeepPolling_giveUp(state) ==
    state # "QUERY_STATE_COMPLETED" /\ reqCount["status"] < 2

\* variant: while (status.state === 'QUERY_STATE_COMPLETED')
KeepPolling_inverted(state) == state = "QUERY_STATE_COMPLETED"

\* while (status.state !== 'QUERY_STATE_COMPLETED')
KeepPolling(state) == state # "QUERY_STATE_COMPLETED"

\* axios.post(.../execute) has answered
ExecuteResponse ==
    /\ pc = "await_execute"
    /\ \E r \in ExecuteOutcomes :
          IF r = "http_error"
          THEN /\ QueryCatch(ErrorOf("execute", r))
               /\ UNCHANGED executionId
          ELSE /\ executionId' = ExecutionIdOf(r)
               /\ IF NoExecutionId(r)
                  THEN QueryCatch(ErrorOf("execute", r))
                  ELSE /\ pc' = "sleeping"
                       /\ UNCHANGED <<fids, caught, escaped>>
    /\ UNCHANGED <<env, status, gateVars, actVars, reqCount>>

\* sleep(3000) is over: the status request is issued
SleepDone ==
    /\ pc = "sleeping"
    /\ pc' = "await_status"
    /\ reqCount' = Add(reqCount, "status")
    /\ UNCHANGED <<env, queryVars, gateVars, actVars, escaped>>

\* axios.get(.../status) has answered
StatusResponse ==
    /\ pc = "await_status"
    /\ \E r \in StatusOutcomes :
          IF r = "http_error"
          THEN /\ QueryCatch(ErrorOf("status", r))
               /\ UNCHANGED <<status, reqCount>>
          ELSE /\ status' = <<r>>
               /\ IF QueryFailed(r)
                  THEN /\ QueryCatch(ErrorOf("status", r))
                       /\ UNCHANGED reqCount
                  ELSE IF KeepPolling(r)
                  THEN /\ reqCount["status"] < MaxPolls
                       /\ pc' = "sleeping"
                       /\ UNCHANGED <<fids, caught, reqCount, escaped>>
                  ELSE /\ pc' = "await_results"
                       /\ reqCount' = Add(reqCount, "results")
                       /\ UNCHANGED <<fids, caught, escaped>>
    /\ UNCHANGED <<env, executionId, gateVars, actVars>>

\* axios.get(.../results) has answered
ResultsResponse ==
    /\ pc = "await_results"
    /\ \/ \E r \in ResultsFailures : QueryCatch(ErrorOf("results", r))
       \/ \E n \in RowCounts :
             /\ fids' = Project(Rows(n))
             /\ pc' = "main_resume"
             /\ UNCHANGED <<caught, escaped>>
    /\ UNCHANGED <<env, executionId, status, gateVars, actVars, reqCount>>

----------------------------------------------------------------------------
(* unfollowFids *)

\* variant: no check for the empty list
unfollowFids_noEmptyCheck(list) ==
    /\ act' = "running"
    /\ batches' = Batches(list)
    /\ bstate' = [i \in 1..Len(Batches(list)) |-> "queued"]
    /\ responses' = [i \in 1..Len(Batches(list)) |-> "none"]
    /\ ticks' = Len(Batches(list))
    /\ UNCHANGED deleteRequests

\* from the call to the await of Promise.all: the empty check, the slicing,
\* and one limit(...) per batch, which enqueues it
unfollowFids(list) ==
    IF Len(list) = 0
    THEN /\ act' = "skipped"
         /\ UNCHANGED <<batches, bstate, deleteRequests, responses, ticks>>
    ELSE /\ act' = "running"
         /\ batches' = Batches(list)
         /\ bstate' = [i \in 1..Len(Batches(list)) |-> "queued"]
         /\ responses' = [i \in 1..Len(Batches(list)) |-> "none"]
         /\ ticks' = Len(Batches(list))
         /\ UNCHANGED deleteRequests

\* p-limit's microtask of one enqueue: start the head if a slot is free
Dispatch ==
    /\ act = "running"
    /\ ticks > 0
    /\ ticks' = ticks - 1
    /\ IF Queue(bstate) # {} /\ HasSlot(bstate)
       THEN StartHead(bstate)
       ELSE UNCHANGED <<bstate, deleteRequests, reqCount>>
    /\ UNCHANGED <<pc, env, queryVars, gateVars, act, batches, responses, escaped>>

\* variant: the limited function has no try/catch, so that a failed
\* request rejects Promise.all and the error leaves unfollowFids and main
Settle_noCatch(i, o) ==
    /\ NextQueued([bstate EXCEPT ![i] = Report(o)])
    /\ escaped' = (escaped \/ o = "error")
    /\ pc' = IF o = "error" /\ pc = "unfollowing" THEN "done" ELSE pc
    /\ UNCHANGED act

\* the rest of the limited function of batch i, whose request ended as o:
\* the try block logs success or issues, the catch block logs the failure;
\* either way the function settles normally and p-limit runs next()
Settle(i, o) ==
    /\ NextQueued([bstate EXCEPT ![i] = Report(o)])
    /\ UNCHANGED <<pc, act, escaped>>

\* axios.delete of batch i has answered: the outcome is logged, the limited
\* function settles, and p-limit starts the next queued one.  A response is
\* an I/O event: it is handled once no microtask is pending.
ResolveBatch(i) ==
    /\ act = "running"
    /\ ticks = 0
    /\ i \in DOMAIN bstate
    /\ bstate[i] = "inflight"
    /\ \E o \in DeleteOutcomes :
          /\ responses' = [responses EXCEPT ![i] = o]
          /\ Settle(i, o)
    /\ UNCHANGED <<env, queryVars, gateVars, batches, ticks>>

Resolve == \E i \in 1..MaxBatches : ResolveBatch(i)

\* variant: the join waits for the queue to drain, not for the requests
AllSettled_noneQueued(bs) == Queue(bs) = {}

\* Promise.all resolves when every limited function has settled
AllSettled(bs) == Resolved(bs) = DOMAIN bs

\* Promise.all(unfollowPromises) has resolved: log and return to the caller
Join ==
    /\ act = "running"
    /\ ticks = 0
    /\ AllSettled(bstate)
    /\ act' = "completed"
    /\ pc' = IF pc = "unfollowing" THEN "done" ELSE pc
    /\ UNCHANGED <<env, queryVars, gateVars, batches, bstate, deleteRequests,
                   responses, ticks, reqCount, escaped>>

----------------------------------------------------------------------------
(* main *)

\* the environment check, then fetchFidsToUnfollow up to its first await
MainStart ==
    /\ pc = "start"
    /\ IF EnvMissing(env)
       THEN pc' = "done" /\ UNCHANGED reqCount
       ELSE pc' = "await_execute" /\ reqCount' = Add(reqCount, "execute")
    /\ UNCHANGED <<env, queryVars, gateVars, actVars, escaped>>

\* variant: if (fids), and an empty array is truthy
HasFids_truthy(list) == TRUE

\* if (fids && fids.length > 0)
HasFids(list) == Len(list) > 0

\* fetchFidsToUnfollow has returned: print the list and prompt, or stop
MainResume ==
    /\ pc = "main_resume"
    /\ IF HasFids(fids)
       THEN pc' = "prompt" /\ shown' = <<fids>>
       ELSE pc' = "done" /\ UNCHANGED shown
    /\ UNCHANGED <<env, queryVars, answer, actVars, reqCount, escaped>>

\* readlineSync.question has returned the operator's input
Confirm ==
    /\ pc = "prompt"
    /\ \E a \in Answers :
          /\ answer' = <<a>>
          /\ IF Accepts(a)
             THEN /\ unfollowFids(fids)
                  /\ pc' = IF Len(fids) = 0 THEN "done" ELSE "unfollowing"
             ELSE /\ pc' = "done"
                  /\ UNCHANGED actVars
    /\ UNCHANGED <<env, queryVars, shown, reqCount, escaped>>

----------------------------------------------------------------------------
(* Specifications *)

NoRequests == [k \in {"execute", "status", "results", "delete"} |-> 0]

InitRest ==
    /\ executionId = <<>>
    /\ status = <<>>
    /\ fids = <<>>
    /\ shown = <<>>
    /\ answer = <<>>
    /\ act = "idle"
    /\ batches = <<>>
    /\ bstate = <<>>
    /\ deleteRequests = <<>>
    /\ responses = <<>>
    /\ ticks = 0
    /\ reqCount = NoRequests
    /\ caught = <<>>
    /\ escaped = FALSE

\* the script as run: node unfollow.js
Init ==
    /\ pc = "start"
    /\ env \in [EnvVars -> EnvValues]
    /\ InitRest

Next ==
    \/ MainStart
    \/ ExecuteResponse
    \/ SleepDone
    \/ StatusResponse
    \/ ResultsResponse
    \/ MainResume
    \/ Confirm
    \/ Dispatch
    \/ Resolve
    \/ Join

Spec == Init /\ [][Next]_vars

\* the script up to the prompt: the environment check and fetchFidsToUnfollow
NextQuery ==
    \/ MainStart
    \/ ExecuteResponse
    \/ SleepDone
    \/ StatusResponse
    \/ ResultsResponse
    \/ MainResume

SpecQuery == Init /\ [][NextQuery]_vars

\* the timer of sleep fires, every request is answered, and main resumes
FairQuery ==
    /\ SpecQuery
    /\ WF_vars(ExecuteResponse)
    /\ WF_vars(SleepDone)
    /\ WF_vars(StatusResponse)
    /\ WF_vars(ResultsResponse)
    /\ WF_vars(MainResume)

\* unfollowFids on its own, called with any list of the bounded set
InitActuator ==
    /\ pc = "call"
    /\ env = [v \in EnvVars |-> "set"]
    /\ executionId = <<>>
    /\ status = <<>>
    /\ fids \in {Project(Rows(n)) : n \in RowCounts}
    /\ shown = <<>>
    /\ answer = <<>>
    /\ act = "idle"
    /\ batches = <<>>
    /\ bstate = <<>>
    /\ deleteRequests = <<>>
    /\ responses = <<>>
    /\ ticks = 0
    /\ reqCount = NoRequests
    /\ caught = <<>>
    /\ escaped = FALSE

CallUnfollowFids ==
    /\ pc = "call"
    /\ pc' = "called"
    /\ unfollowFids(fids)
    /\ UNCHANGED <<env, queryVars, gateVars, reqCount, escaped>>

NextActuator ==
    \/ CallUnfollowFids
    \/ Dispatch
    \/ Resolve
    \/ Join

SpecActuator == InitActuator /\ [][NextActuator]_vars

\* the event loop runs every pending microtask and continuation, and every
\* request that was issued is answered
FairActuator ==
    /\ SpecActuator
    /\ WF_vars(Dispatch)
    /\ \A i \in 1..MaxBatches : WF_vars(ResolveBatch(i))
    /\ WF_vars(Join)

----------------------------------------------------------------------------
(* Properties *)

\* "yes" in any letter case, character by character
IsYes(a) ==
    /\ Len(a) = 3
    /\ a[1] \in {"y", "Y"}
    /\ a[2] \in {"e", "E"}
    /\ a[3] \in {"s", "S"}

ActuatorInvoked == act # "idle"

\* C1: a deletion request is issued only after the confirmation input has
\* been read and only if it is "yes" in some letter case; after any other
\* input main has ended, the Actuator was never invoked and no deletion
\* request was issued.
C1_DeleteOnlyAfterYes ==
    /\ (reqCount["delete"] > 0 \/ deleteRequests # <<>> \/ ActuatorInvoked)
          => (answer # <<>> /\ IsYes(answer[1]))
    /\ (answer # <<>> /\ ~IsYes(answer[1]))
          => (pc = "done" /\ ~ActuatorInvoked /\ reqCount["delete"] = 0
              /\ deleteRequests = <<>>)

C1_Witness ==
    /\ answer = <<(<<"Y", "e", "S">>)>>
    /\ reqCount["delete"] > 0

ThreeSpellings == {<<"y", "e", "s">>, <<"Y", "E", "S">>, <<"Y", "e", "s">>}

\* C2 as stated: main goes on to the Actuator for exactly the inputs "yes",
\* "YES" and "Yes", and aborts for every other input.
C2_OnlyThreeSpellings ==
    [][(pc = "prompt" /\ pc' # "prompt")
          => IF answer'[1] \in ThreeSpellings
             THEN pc' = "unfollowing" /\ act' = "running"
             ELSE pc' = "done" /\ act' = "idle"]_vars

\* C2 as amended: given a non-empty list, main goes on to the Actuator when
\* the input is "yes" in any letter case (yes, YES, Yes, yEs, ...), and for
\* every other input, the empty one included, it ends without calling it.
C2_AnyCaseYes ==
    [][(pc = "prompt" /\ pc' # "prompt")
          => IF IsYes(answer'[1])
             THEN pc' = "unfollowing" /\ act' = "running"
             ELSE pc' = "done" /\ act' = "idle"]_vars

C2_Witness ==
    /\ answer = <<(<<"y", "E", "s">>)>>
    /\ pc = "unfollowing"
    /\ act = "running"

RECURSIVE Flatten(_)
Flatten(ss) == IF ss = <<>> THEN <<>> ELSE Head(ss) \o Flatten(Tail(ss))

Sizes(ss) == [i \in 1..Len(ss) |-> Len(ss[i])]

\* C3: a non-empty list of length n is cut into exactly ceil(n/100) chunks,
\* all of 100 elements but the last, which has between 1 and 100, and the
\* chunks concatenated in index order are the list; 250 elements give the
\* sizes 100, 100, 50.
C3_Partition ==
    (act \in {"running", "completed"}) =>
        /\ Len(fids) > 0
        /\ Len(batches) * 100 >= Len(fids)
        /\ (Len(batches) - 1) * 100 < Len(fids)
        /\ \A i \in 1..Len(batches) :
              /\ Len(batches[i]) >= 1
              /\ Len(batches[i]) <= 100
              /\ (i < Len(batches) => Len(batches[i]) = 100)
        /\ Flatten(batches) = fids
        /\ (Len(fids) = 250 => Sizes(batches) = <<100, 100, 50>>)

C3_Witness ==
    /\ act = "running"
    /\ Len(fids) = 250
    /\ Len(batches) = 3

\* C4: at most 5 deletion requests are dispatched and not yet resolved,
\* whatever the number of chunks and the order and outcomes of completions.
C4_AtMostFiveInFlight ==
    /\ InFlight(bstate) <= 5
    /\ reqCount["delete"] - Cardinality(Resolved(bstate)) <= 5

\* five in flight again after a failure let the sixth chunk start
C4_Witness ==
    /\ InFlight(bstate) = 5
    /\ Len(deleteRequests) > 5
    /\ \E i \in DOMAIN bstate : bstate[i] = "failed"

Dispatched(i) == \E k \in DOMAIN deleteRequests : deleteRequests[k].index = i

\* C5: once unfollowFids has enqueued its chunks, the request of every chunk
\* is eventually issued, however the requests of the other chunks end,
\* provided every issued request is answered.
C5_EveryChunkDispatched ==
    (act = "running") ~> (\A i \in 1..Len(batches) : Dispatched(i))

\* the only request answered so far failed, and the sixth chunk was started
C5_Witness ==
    /\ Len(batches) > 5
    /\ Cardinality(Resolved(bstate)) = 1
    /\ \E i \in DOMAIN bstate : bstate[i] = "failed"
    /\ Dispatched(6)

\* C6: unfollowFids has completed, and main has got control back from it,
\* only with the request of every chunk issued and answered: no chunk is
\* queued or in flight then.
C6_CompleteOnlyAfterAllResolved ==
    /\ act = "completed" =>
          /\ DOMAIN bstate = 1..Len(batches)
          /\ \A i \in 1..Len(batches) :
                bstate[i] \in {"success", "issues", "failed"}
          /\ Len(deleteRequests) = Len(batches)
    /\ (pc = "done" /\ ActuatorInvoked) => act = "completed"

C6_Witness ==
    /\ act = "completed"
    /\ pc = "done"
    /\ Len(batches) > 5
    /\ \E i \in DOMAIN bstate : bstate[i] = "failed"
    /\ \E i \in DOMAIN bstate : bstate[i] = "success"

\* C7: unfollowFids called with the empty list returns at once: no chunk is
\* built, nothing is enqueued and no deletion request is issued.
C7_EmptyListIsNoOp ==
    (pc = "called" /\ Len(fids) = 0) =>
        /\ act = "skipped"
        /\ batches = <<>>
        /\ bstate = <<>>
        /\ ticks = 0
        /\ deleteRequests = <<>>
        /\ reqCount["delete"] = 0

C7_Witness ==
    /\ pc = "called"
    /\ fids = <<>>
    /\ act = "skipped"

StatusFailed == status = <<"QUERY_STATE_FAILED">>

\* C8: once a status poll, the first or a later one, has reported the failed
\* state, fetchFidsToUnfollow has returned the empty list without raising,
\* and no status request and no results request is issued from then on.
C8_FailedStatusEndsPolling ==
    /\ [](StatusFailed =>
             /\ pc \in {"main_resume", "done"}
             /\ fids = <<>>
             /\ ~escaped
             /\ reqCount["results"] = 0)
    /\ [][StatusFailed' =>
             /\ reqCount'["status"] = reqCount["status"]
             /\ reqCount'["results"] = reqCount["results"]]_vars

\* the second poll reported the failure
C8_Witness ==
    /\ StatusFailed
    /\ reqCount["status"] = 2
    /\ pc = "done"

HttpFailedAt(at) == caught = <<[at |-> at, kind |-> "http"]>>

HttpFailed == \E at \in {"execute", "status", "results"} : HttpFailedAt(at)

\* C9: once a Query Runner request (submission, status poll or results
\* fetch) has failed at HTTP level, fetchFidsToUnfollow has returned the
\* empty list, no exception has reached main, and no Query Runner request
\* is issued after the failing one.
C9_HttpFailureGivesEmptyList ==
    /\ [](HttpFailed =>
             /\ pc \in {"main_resume", "done"}
             /\ fids = <<>>
             /\ ~escaped
             /\ (HttpFailedAt("execute") => reqCount["status"] = 0)
             /\ (~HttpFailedAt("results") => reqCount["results"] = 0))
    /\ [][HttpFailed' =>
             \A k \in {"execute", "status", "results"} :
                 reqCount'[k] = reqCount[k]]_vars

C9_Witness ==
    /\ HttpFailedAt("results")
    /\ pc = "done"
    /\ fids = <<>>

QueryReturned ==
    /\ reqCount["execute"] > 0
    /\ pc \in {"main_resume", "prompt", "unfollowing", "done"}

\* C10: when fetchFidsToUnfollow has returned the empty list, for a failure
\* or for a query that flagged nothing, main prompts nobody, never calls
\* unfollowFids and no deletion request is issued.
C10_EmptyListMeansNoAction ==
    (QueryReturned /\ Len(fids) = 0) =>
        /\ pc \in {"main_resume", "done"}
        /\ shown = <<>>
        /\ answer = <<>>
        /\ ~ActuatorInvoked
        /\ deleteRequests = <<>>
        /\ reqCount["delete"] = 0

\* the query completed and flagged nothing
C10_Witness ==
    /\ pc = "done"
    /\ reqCount["results"] = 1
    /\ caught = <<>>
    /\ fids = <<>>

NoRequestAtAll == \A k \in DOMAIN reqCount : reqCount[k] = 0

\* C11: with one of the four required configuration values absent, main
\* ends early: no submission, poll, fetch or deletion request is issued and
\* the operator is not prompted.
C11_MissingConfigEndsEarly ==
    (\E v \in EnvVars : env[v] \in {Undefined, ""}) =>
        /\ pc \in {"start", "done"}
        /\ NoRequestAtAll
        /\ deleteRequests = <<>>
        /\ shown = <<>>
        /\ answer = <<>>
        /\ ~ActuatorInvoked

\* only the target identifier is absent, and main has ended
C11_Witness ==
    /\ pc = "done"
    /\ env["TARGET_FID"] = Undefined
    /\ \A v \in EnvVars \ {"TARGET_FID"} : env[v] = "set"

\* the target list of the k-th deletion request issued
Target(k) == deleteRequests[k].target_fids

\* the length of the target lists of the first k deletion requests together
RECURSIVE TargetsLen(_)
TargetsLen(k) == IF k = 0 THEN 0 ELSE TargetsLen(k - 1) + Len(Target(k))

\* the target lists of the requests issued so far, put one after the other,
\* are the beginning of list
TargetsPrefixOf(list) ==
    \A k \in 1..Len(deleteRequests) :
        /\ TargetsLen(k) <= Len(list)
        /\ Target(k) = SubSeq(list, TargetsLen(k - 1) + 1, TargetsLen(k))

\* the profile_id of row i of the result set
ProfileIdOfRow(i) == 1000 + i

\* C12: the list shown at the prompt is the list fetchFidsToUnfollow
\* returned, which holds the profile_id of every result row in row order;
\* the list does not change after it was returned; the deletion requests
\* are issued in chunk order and their target lists, concatenated, are a
\* prefix of that list and, once every chunk was sent, the list itself.
C12_ListShownIsListDeleted ==
    /\ [][(~QueryReturned /\ QueryReturned') =>
             \A i \in 1..Len(fids') : fids'[i] = ProfileIdOfRow(i)]_vars
    /\ [](shown # <<>> => shown = <<fids>>)
    /\ [](deleteRequests # <<>> =>
             /\ shown = <<fids>>
             /\ \A k \in 1..Len(deleteRequests) : deleteRequests[k].index = k
             /\ TargetsPrefixOf(fids))
    /\ [](act = "completed" =>
             /\ TargetsPrefixOf(shown[1])
             /\ TargetsLen(Len(deleteRequests)) = Len(shown[1]))
    /\ [][QueryReturned => fids' = fids]_vars

C12_Witness ==
    /\ act = "completed"
    /\ Len(fids) = 250
    /\ shown = <<fids>>
    /\ Len(deleteRequests) = 3

QueryRequests == reqCount["execute"] + reqCount["status"] + reqCount["results"]

Awaiting == pc \in {"await_execute", "await_status", "await_results"}

\* C13: the Query Runner's requests go submit, polls, fetch, one at a time.
\* A status request is issued only with a job handle and with no request
\* outstanding; the results request is issued only in the step that handles
\* a status answer reporting the completed state; a step issues at most one
\* request, and none while another one stays outstanding.
C13_SubmitPollFetchInOrder ==
    /\ [](reqCount["status"] > 0 => executionId # <<>>)
    /\ [](reqCount["results"] > 0 =>
             /\ reqCount["status"] > 0
             /\ status = <<"QUERY_STATE_COMPLETED">>)
    /\ [](pc = "await_execute" => reqCount["status"] = 0 /\ reqCount["results"] = 0)
    /\ [](pc = "await_status" => reqCount["results"] = 0)
    /\ [][/\ QueryRequests' <= QueryRequests + 1
          /\ (Awaiting /\ Awaiting' /\ pc' = pc) => QueryRequests' = QueryRequests
          /\ reqCount'["status"] > reqCount["status"] =>
                (pc = "sleeping" /\ executionId # <<>>)
          /\ reqCount'["results"] > reqCount["results"] =>
                (pc = "await_status" /\ status' = <<"QUERY_STATE_COMPLETED">>)]_vars

\* the results request follows a second poll that reported completion
C13_Witness ==
    /\ pc = "await_results"
    /\ reqCount["status"] = 2
    /\ status = <<"QUERY_STATE_COMPLETED">>

InPollLoop == pc \in {"sleeping", "await_status"}

StillRunning == status \in {<<"QUERY_STATE_PENDING">>, <<"QUERY_STATE_EXECUTING">>}

NoHandle == [at |-> "execute", kind |-> "no_execution_id"]

\* C15: when the submission was answered without HTTP failure and without
\* a job handle, fetchFidsToUnfollow has returned the empty list: no status
\* request and no results request is ever issued.
C15_NoHandleGivesEmptyList ==
    (/\ reqCount["execute"] > 0
     /\ pc # "await_execute"
     /\ executionId = <<>>
     /\ ~HttpFailedAt("execute")) =>
        /\ caught = <<NoHandle>>
        /\ pc \in {"main_resume", "done"}
        /\ fids = <<>>
        /\ ~escaped
        /\ reqCount["status"] = 0
        /\ reqCount["results"] = 0

C15_Witness ==
    /\ caught = <<NoHandle>>
    /\ executionId = <<>>
    /\ pc = "done"

RequestsOfChunk(i) == {k \in DOMAIN deleteRequests : deleteRequests[k].index = i}

\* C16: nothing is retried: a run has at most one submission request and at
\* most one results request, no chunk has more than one deletion request,
\* and when unfollowFids has completed every chunk has exactly one, whatever
\* the outcomes were.
C16_NoRetry ==
    /\ reqCount["execute"] <= 1
    /\ reqCount["results"] <= 1
    /\ reqCount["delete"] = Len(deleteRequests)
    /\ \A i \in 1..Len(batches) : Cardinality(RequestsOfChunk(i)) <= 1
    /\ act = "completed" =>
          /\ reqCount["delete"] = Len(batches)
          /\ \A i \in 1..Len(batches) : Cardinality(RequestsOfChunk(i)) = 1

\* six chunks, all of them failed, six requests
C16_Witness ==
    /\ act = "completed"
    /\ Len(batches) = 6
    /\ \A i \in 1..Len(batches) : bstate[i] = "failed"
    /\ reqCount["delete"] = 6

\* C17: if every issued deletion request is answered, unfollowFids
\* completes for every combination of outcomes, all chunks failing included,
\* and no failure of a batch leaves it as an exception.
C17_ActuatorCompletes ==
    /\ (act = "running") ~> (act = "completed")
    /\ [](~escaped)

C17_Witness ==
    /\ act = "completed"
    /\ Len(batches) > 1
    /\ \A i \in 1..Len(batches) : responses[i] = "error"
    /\ ~escaped

Quiescent == act = "running" /\ ticks = 0

\* C18: the gate keeps no slot idle: with no microtask pending, a chunk is
\* queued only while 5 requests are in flight, and the step that handles an
\* answer while chunks are queued starts the first queued chunk.
C18_WorkConserving ==
    /\ []((Quiescent /\ Queue(bstate) # {}) => InFlight(bstate) = 5)
    /\ [][(Quiescent /\ Queue(bstate) # {} /\ Resolved(bstate') # Resolved(bstate)) =>
             /\ Len(deleteRequests') = Len(deleteRequests) + 1
             /\ \A j \in Queue(bstate) :
                   deleteRequests'[Len(deleteRequests')].index <= j
             /\ Queue(bstate') = Queue(bstate) \
                                   {deleteRequests'[Len(deleteRequests')].index}
             /\ InFlight(bstate') = 5]_vars

\* one answer has been handled and the sixth chunk took the free slot
C18_Witness ==
    /\ Quiescent
    /\ Cardinality(Resolved(bstate)) = 1
    /\ Len(deleteRequests) = 6
    /\ InFlight(bstate) = 5

Reported == {"success", "issues", "failed"}

\* C19: a chunk has a reported outcome exactly when its own request has
\* ended, and which one depends on that request alone: success for an answer
\* with the success flag, issues for an answer without it, failed for an
\* error; an outcome, once reported, is never changed.
C19_OutcomePerChunk ==
    /\ [](\A i \in DOMAIN bstate :
             /\ (bstate[i] = "success" <=> responses[i] = "success")
             /\ (bstate[i] = "issues" <=> responses[i] = "no_success")
             /\ (bstate[i] = "failed" <=> responses[i] = "error")
             /\ (bstate[i] \in {"queued", "inflight"} <=> responses[i] = "none"))
    /\ [][\A i \in DOMAIN bstate :
             bstate[i] \in Reported => bstate'[i] = bstate[i]]_vars

\* the three outcomes side by side
C19_Witness ==
    /\ \E i \in DOMAIN bstate : bstate[i] = "success" /\ responses[i] = "success"
    /\ \E i \in DOMAIN bstate : bstate[i] = "issues" /\ responses[i] = "no_success"
    /\ \E i \in DOMAIN bstate : bstate[i] = "failed" /\ responses[i] = "error"

====
